---- MODULE Spec2Model ----
(***************************************************************************)
(* Grammar checker relay: an HTTP intake (input_server.py) hands a text to *)
(* GrammarCheckerApp._handle_text (main.py), which runs one exchange with  *)
(* a Telegram bot (telegram_client.py: drain the response queue, send the  *)
(* prompt, wait for a tagged reply with a timeout, parse it) and presents  *)
(* the result (ui_window.py).  All tasks share one cooperative event loop, *)
(* so every action below is the code between two suspension points.        *)
(*                                                                         *)
(* Texts are sequences of tokens: the tag literal, a whitespace run, the   *)
(* fence delimiters, and opaque documents.  Exception messages and         *)
(* explanations are sequences of words.                                    *)
(***************************************************************************)
EXTENDS Integers, Sequences, FiniteSets, TLC

\* ---- bounds ----
NReq == 2        \* POST /check requests in one run
MaxMsgs == 2     \* messages that reach the client in one run

Req == 1..NReq

\* ---- reply texts (telegram_client.py) ----
Tag == "RESPONSE:"
WS == "ws"
FenceOpen == "fence_json"   \* three backticks followed by json
FenceClose == "fence"       \* three backticks

\* documents that json.loads accepts, by name
JsonDocs == {"doc_ok", "doc_fa", "doc_nofield"}

\* what json.loads returns for each document
json_value(d) ==
  CASE d = "doc_ok" ->
         [corrected_text |-> "He goes to school.",
          error_analysis |-> << [original |-> "he go", corrected |-> "he goes",
                                 explanation |-> <<"Subject-verb", "agreement">>] >>]
    [] d = "doc_fa" ->
         [corrected_text |-> "I have a pen.",
          persian_translation |-> "man yek ghalam daram",
          error_analysis |-> << [original |-> "I has", corrected |-> "I have",
                                 explanation |-> <<"Subject-verb", "agreement">>] >>]
    [] OTHER ->
         [corrected_text |-> "He goes to school."]

\* str.strip(): whitespace runs at both ends removed
RECURSIVE lstrip(_)
lstrip(s) == IF s # <<>> /\ Head(s) = WS THEN lstrip(Tail(s)) ELSE s

RECURSIVE rstrip(_)
rstrip(s) == IF s # <<>> /\ s[Len(s)] = WS THEN rstrip(SubSeq(s, 1, Len(s) - 1)) ELSE s

strip(s) == rstrip(lstrip(s))

\* re.sub of the pattern ^FenceOpen\s* by the empty string
sub_fence_open(s) == IF s # <<>> /\ Head(s) = FenceOpen THEN lstrip(Tail(s)) ELSE s

\* re.sub of the pattern \s*FenceClose$ by the empty string
sub_fence_close(s) ==
  IF s # <<>> /\ s[Len(s)] = FenceClose THEN rstrip(SubSeq(s, 1, Len(s) - 1)) ELSE s

\* message_text.startswith("RESPONSE:")
startswith_tag(t) == t # <<>> /\ Head(t) = Tag

\* response[len("RESPONSE:"):] drops the first nine characters, here the
\* first token, whatever it is
drop_tag(t) == IF t = <<>> THEN t ELSE Tail(t)

\* the text handed to json.loads
json_text(response) == strip(sub_fence_close(sub_fence_open(strip(drop_tag(response)))))

\* mutant of json_valid: any single token is taken for a document
json_valid_mut(s) == Len(s) = 1

\* json.loads succeeds exactly on one well-formed document
json_valid(s) == Len(s) = 1 /\ s[1] \in JsonDocs

InvalidJsonMsg == <<"Invalid", "JSON", "response", "from", "bot">>
TimeoutMsg == <<"Bot", "did", "not", "respond", "in", "time">>
DisconnectedMsg == <<"Cannot", "send", "requests", "while", "disconnected">>

\* an outcome of a call: a returned value or a raised exception
Return(v) == [ok |-> TRUE, val |-> v, exc |-> <<>>]
Raise(m) == [ok |-> FALSE,
             val |-> [corrected_text |-> ""],
             exc |-> m]

\* TelegramGrammarBot._parse_response
_parse_response(response) ==
  IF json_valid(json_text(response))
  THEN Return(json_value(json_text(response)[1]))
  ELSE Raise(InvalidJsonMsg)

\* mutant of error_result: the message of the exception is left out
error_result_mut(text, exc) ==
  [corrected_text |-> text,
   error_analysis |-> << [original |-> text, corrected |-> text,
                          explanation |-> <<"Error:">>] >>]

\* the except branch of GrammarCheckerApp._handle_text
error_result(text, exc) ==
  [corrected_text |-> text,
   error_analysis |-> << [original |-> text, corrected |-> text,
                          explanation |-> <<"Error:">> \o exc] >>]

\* inbound texts the bot account (or anybody else) may send
TaggedTexts ==
  { <<Tag, WS, FenceOpen, WS, "doc_fa", WS, FenceClose>>,
    <<Tag, "doc_nofield">>,
    <<Tag, "junk">> }

UntaggedTexts == { <<WS, Tag, "doc_ok">> }

BotUsername == "bot"

\* ---- HTTP request bodies (input_server.py) ----
Bodies ==
  { [kind |-> "not_json", data |-> [other |-> "x"]],
    [kind |-> "object", data |-> [other |-> "x"]],
    [kind |-> "object", data |-> [text |-> ""]],
    [kind |-> "object", data |-> [text |-> "he go school"]] }

\* data.get('text', '')
get_text(data) == IF "text" \in DOMAIN data THEN data.text ELSE ""

\* mutant of not_text: the empty text is let through
not_text_mut(text) == FALSE

\* the test "if not text" of _handle_check
not_text(text) == text = ""

\* web.json_response(body, status=status)
json_response(body, status) == [status |-> status, body |-> body]

\* mutant of _handle_text: the except branch returns without show_result
_handle_text_mut(text, outcome) ==
  IF outcome.ok
  THEN [shown |-> <<outcome.val>>, ret |-> outcome.val]
  ELSE [shown |-> <<>>, ret |-> error_result(text, outcome.exc)]

\* mutant of _handle_text: the success path copies the two required fields
\* only
_handle_text_copy_mut(text, outcome) ==
  IF outcome.ok
  THEN IF "error_analysis" \in DOMAIN outcome.val
       THEN [shown |-> <<outcome.val>>,
             ret |-> [corrected_text |-> outcome.val.corrected_text,
                      error_analysis |-> outcome.val.error_analysis]]
       ELSE [shown |-> <<outcome.val>>, ret |-> outcome.val]
  ELSE [shown |-> <<error_result(text, outcome.exc)>>,
        ret |-> error_result(text, outcome.exc)]

\* GrammarCheckerApp._handle_text after check_grammar has returned or raised:
\* the results handed to show_result, in order, and the value returned
_handle_text(text, outcome) ==
  IF outcome.ok
  THEN [shown |-> <<outcome.val>>, ret |-> outcome.val]
  ELSE [shown |-> <<error_result(text, outcome.exc)>>,
        ret |-> error_result(text, outcome.exc)]

\* the state of the per-request state machine an outcome of the wait stands for
outcome_state(outcome) ==
  IF outcome.ok THEN <<"Decoded">>
  ELSE IF outcome.exc = TimeoutMsg THEN <<"TimedOut">>
  ELSE IF outcome.exc = InvalidJsonMsg THEN <<"DecodeFailed">>
  ELSE <<>>

VARIABLES
  phase,           \* where GrammarCheckerApp is between start() and stop()
  client,          \* TelegramGrammarBot.client: "none", "connected", "disconnected"
  text_handler,    \* InputServer.text_handler is set
  runner,          \* InputServer.runner: "none", "running" or "cleaned"
  response_queue,  \* TelegramGrammarBot.response_queue: the queued messages
  getters,         \* the tasks suspended in response_queue.get(), oldest first
  nextId,          \* number of messages the listener has enqueued so far
  ignored,         \* the listener has discarded a message
  pc,              \* where the task of each request is
  body,            \* the body of each request
  drainAt,         \* nextId when the request drained the queue
  sendAt,          \* nextId when the prompt of the request was sent
  prior,           \* the requests that had ended when the request was accepted
  drained,         \* number of messages the drain of the request removed
  sends,           \* number of prompts sent for the request
  got,             \* the message handed to _parse_response for the request
  hist,            \* the states the request has passed through
  shown,           \* the results passed to show_result for the request
  resp             \* the HTTP responses of the request

vars == <<phase, client, text_handler, runner, response_queue, getters, nextId, ignored,
          pc, body, prior, drainAt, sendAt, drained, sends, got, hist, shown, resp>>


Init ==
  /\ phase = "constructed"
  /\ client = "none"
  /\ text_handler = TRUE
  /\ runner = "none"
  /\ response_queue = <<>>
  /\ getters = <<>>
  /\ nextId = 0
  /\ ignored = FALSE
  /\ pc = [r \in Req |-> "none"]
  /\ body = [r \in Req |-> [kind |-> "not_json", data |-> [other |-> "x"]]]
  /\ prior = [r \in Req |-> {}]
  /\ drainAt = [r \in Req |-> -1]
  /\ sendAt = [r \in Req |-> -1]
  /\ drained = [r \in Req |-> 0]
  /\ sends = [r \in Req |-> 0]
  /\ got = [r \in Req |-> <<>>]
  /\ hist = [r \in Req |-> <<>>]
  /\ shown = [r \in Req |-> <<>>]
  /\ resp = [r \in Req |-> <<>>]

\* GrammarCheckerApp.start: await self.telegram_bot.start()
TelegramStart ==
  /\ phase = "constructed"
  /\ phase' = "tg_started"
  /\ client' = "connected"
  /\ UNCHANGED <<text_handler, runner, response_queue, getters, nextId, ignored,
                 pc, body, prior, drainAt, sendAt, drained, sends, got, hist, shown, resp>>

\* mutant of ServerStart: the server is started before the Telegram client
ServerStart_mut ==
  /\ phase = "constructed"
  /\ phase' = "serving"
  /\ runner' = "running"
  /\ UNCHANGED <<client, text_handler, response_queue, getters, nextId, ignored,
                 pc, body, prior, drainAt, sendAt, drained, sends, got, hist, shown, resp>>

\* GrammarCheckerApp.start: await self.server.start()
ServerStart ==
  /\ phase = "tg_started"
  /\ phase' = "serving"
  /\ runner' = "running"
  /\ UNCHANGED <<client, text_handler, response_queue, getters, nextId, ignored,
                 pc, body, prior, drainAt, sendAt, drained, sends, got, hist, shown, resp>>

\* GrammarCheckerApp.start raises before the Telegram client exists (the
\* TelegramClient constructor fails); runner() of main then calls stop()
StartFails ==
  /\ phase = "constructed"
  /\ phase' = "start_failed"
  /\ UNCHANGED <<client, text_handler, runner, response_queue, getters, nextId, ignored,
                 pc, body, prior, drainAt, sendAt, drained, sends, got, hist, shown, resp>>

\* mutant of server_stop: cleanup is called whether or not a runner exists
server_stop_mut(rn) == "cleaned"

\* InputServer.stop: if self.runner: await self.runner.cleanup()
server_stop(rn) == IF rn # "none" THEN "cleaned" ELSE rn

\* mutant of bot_stop: disconnect is called whether or not a client exists
bot_stop_mut(c) == "disconnected"

\* TelegramGrammarBot.stop: if self.client: await self.client.disconnect()
bot_stop(c) == IF c # "none" THEN "disconnected" ELSE c

\* GrammarCheckerApp.stop: await self.server.stop().  runner.cleanup() lets the
\* handlers in flight finish first; the step is taken once they have
ServerStop ==
  /\ phase \in {"start_failed", "serving"}
  /\ \A r \in Req : pc[r] \in {"none", "done"}
  /\ phase' = "server_stopped"
  /\ runner' = server_stop(runner)
  /\ UNCHANGED <<client, text_handler, response_queue, getters, nextId, ignored,
                 pc, body, prior, drainAt, sendAt, drained, sends, got, hist, shown, resp>>

\* GrammarCheckerApp.stop: await self.telegram_bot.stop()
TelegramStop ==
  /\ phase = "server_stopped"
  /\ phase' = "stopped"
  /\ client' = bot_stop(client)
  /\ UNCHANGED <<text_handler, runner, response_queue, getters, nextId, ignored,
                 pc, body, prior, drainAt, sendAt, drained, sends, got, hist, shown, resp>>

\* the request ends without entering the text handler
Reject(r, b, response) ==
  /\ pc' = [pc EXCEPT ![r] = "done"]
  /\ body' = [body EXCEPT ![r] = b]
  /\ resp' = [resp EXCEPT ![r] = Append(@, response)]
  /\ UNCHANGED <<phase, client, text_handler, runner, response_queue, getters, nextId,
                 ignored, prior, drainAt, sendAt, drained, sends, got, hist, shown>>

\* mutant of _handle_check: the handler is tested before the text
_handle_check_mut(r, b) ==
  /\ phase = "serving"
  /\ pc[r] = "none"
  /\ \A q \in Req : q < r => pc[q] # "none"
  /\ IF b.kind = "not_json"
     THEN Reject(r, b, json_response([error |-> "Expecting value"], 500))
     ELSE IF ~text_handler
     THEN Reject(r, b, json_response([error |-> "Handler not configured"], 500))
     ELSE IF not_text(get_text(b.data))
     THEN Reject(r, b, json_response([error |-> "No text provided"], 400))
     ELSE /\ pc' = [pc EXCEPT ![r] = "sending"]
          /\ body' = [body EXCEPT ![r] = b]
          /\ hist' = [hist EXCEPT ![r] = <<"Idle">>]
          /\ drained' = [drained EXCEPT ![r] = Len(response_queue)]
          /\ response_queue' = <<>>
          /\ drainAt' = [drainAt EXCEPT ![r] = nextId]
          /\ prior' = [prior EXCEPT ![r] = {q \in Req : pc[q] = "done"}]
          /\ UNCHANGED <<phase, client, text_handler, runner, getters, nextId, ignored,
                         sendAt, sends, got, shown, resp>>

\* InputServer._handle_check up to the first suspension of check_grammar:
\* validation, then _handle_text, the drain loop and the call of send_message
_handle_check(r, b) ==
  /\ phase = "serving"
  /\ pc[r] = "none"
  /\ \A q \in Req : q < r => pc[q] # "none"
  /\ IF b.kind = "not_json"
     THEN Reject(r, b, json_response([error |-> "Expecting value"], 500))
     ELSE IF not_text(get_text(b.data))
     THEN Reject(r, b, json_response([error |-> "No text provided"], 400))
     ELSE IF ~text_handler
     THEN Reject(r, b, json_response([error |-> "Handler not configured"], 500))
     ELSE /\ pc' = [pc EXCEPT ![r] = "sending"]
          /\ body' = [body EXCEPT ![r] = b]
          /\ hist' = [hist EXCEPT ![r] = <<"Idle">>]
          /\ drained' = [drained EXCEPT ![r] = Len(response_queue)]
          /\ response_queue' = <<>>
          /\ drainAt' = [drainAt EXCEPT ![r] = nextId]
          /\ prior' = [prior EXCEPT ![r] = {q \in Req : pc[q] = "done"}]
          /\ UNCHANGED <<phase, client, text_handler, runner, getters, nextId, ignored,
                         sendAt, sends, got, shown, resp>>

\* the rest of _handle_text and _handle_check once check_grammar has an
\* outcome: show_result, return, web.json_response
Finish(r, outcome) ==
  /\ hist' = [hist EXCEPT ![r] = @ \o outcome_state(outcome) \o <<"Reported">>]
  /\ shown' = [shown EXCEPT ![r] = @ \o _handle_text(get_text(body[r].data), outcome).shown]
  /\ resp' = [resp EXCEPT ![r] =
                Append(@, json_response(_handle_text(get_text(body[r].data), outcome).ret, 200))]

\* mutant of SendDone: the prompt is sent a second time
SendDone_mut(r) ==
  /\ pc[r] = "sending"
  /\ pc' = [pc EXCEPT ![r] = "getting"]
  /\ sends' = [sends EXCEPT ![r] = @ + 2]
  /\ sendAt' = [sendAt EXCEPT ![r] = nextId]
  /\ hist' = [hist EXCEPT ![r] = @ \o <<"Sent", "AwaitingReply">>]
  /\ UNCHANGED <<phase, client, text_handler, runner, response_queue, getters, nextId,
                 ignored, body, prior, drainAt, drained, got, shown, resp>>

\* await self.client.send_message(...) returns: the prompt is out
SendDone(r) ==
  /\ pc[r] = "sending"
  /\ pc' = [pc EXCEPT ![r] = "getting"]
  /\ sends' = [sends EXCEPT ![r] = @ + 1]
  /\ sendAt' = [sendAt EXCEPT ![r] = nextId]
  /\ hist' = [hist EXCEPT ![r] = @ \o <<"Sent", "AwaitingReply">>]
  /\ UNCHANGED <<phase, client, text_handler, runner, response_queue, getters, nextId,
                 ignored, body, prior, drainAt, drained, got, shown, resp>>

\* await self.client.send_message(...) raises: the network has dropped the
\* session and the prompt does not go out
SendFail(r) ==
  /\ pc[r] = "sending"
  /\ pc' = [pc EXCEPT ![r] = "done"]
  /\ Finish(r, Raise(DisconnectedMsg))
  /\ UNCHANGED <<phase, client, text_handler, runner, response_queue, getters, nextId,
                 ignored, body, prior, drainAt, sendAt, drained, sends, got>>

\* Queue.get inside wait_for, on entry and after a wake-up: suspend while the
\* queue is empty, else take the oldest message, which check_grammar parses
Get(r) ==
  /\ pc[r] \in {"getting", "woken"}
  /\ IF response_queue = <<>>
     THEN /\ pc' = [pc EXCEPT ![r] = "waiting"]
          /\ getters' = Append(getters, r)
          /\ UNCHANGED <<phase, client, text_handler, runner, response_queue, nextId,
                         ignored, body, prior, drainAt, sendAt, drained, sends,
                         got, hist, shown, resp>>
     ELSE /\ response_queue' = Tail(response_queue)
          /\ got' = [got EXCEPT ![r] = <<Head(response_queue)>>]
          /\ pc' = [pc EXCEPT ![r] = "done"]
          /\ Finish(r, _parse_response(Head(response_queue).text))
          /\ UNCHANGED <<phase, client, text_handler, runner, getters, nextId, ignored,
                         body, prior, drainAt, sendAt, drained, sends>>

RemoveGetter(g, r) == SelectSeq(g, LAMBDA x : x # r)

\* Queue._wakeup_next(self._getters)
WakeNext ==
  IF getters = <<>>
  THEN /\ getters' = getters
       /\ pc' = pc
  ELSE /\ getters' = Tail(getters)
       /\ pc' = [pc EXCEPT ![Head(getters)] = "woken"]

\* mutant of Timeout: the wait has no timeout
Timeout_mut(r) == FALSE /\ UNCHANGED vars

\* the timeout of wait_for expires: the suspended get is cancelled and
\* check_grammar raises "Bot did not respond in time"
Timeout(r) ==
  /\ pc[r] \in {"waiting", "woken"}
  /\ Finish(r, Raise(TimeoutMsg))
  /\ IF pc[r] = "waiting"
     THEN /\ getters' = RemoveGetter(getters, r)
          /\ pc' = [pc EXCEPT ![r] = "done"]
     ELSE IF response_queue # <<>> /\ getters # <<>>
     THEN /\ getters' = Tail(getters)
          /\ pc' = [pc EXCEPT ![r] = "done", ![Head(getters)] = "woken"]
     ELSE /\ getters' = getters
          /\ pc' = [pc EXCEPT ![r] = "done"]
  /\ UNCHANGED <<phase, client, text_handler, runner, response_queue, nextId, ignored,
                 body, prior, drainAt, sendAt, drained, sends, got>>

\* mutant of accepts: the startswith test is left out
accepts_mut(sender, text) == sender = BotUsername

\* what reaches the queue: events.NewMessage(from_users=self.bot_username)
\* and the startswith test of the handler
accepts(sender, text) == sender = BotUsername /\ startswith_tag(text)

\* mutant of put: a single slot, the new message replaces what is queued
put_mut(q, m) == <<m>>

\* response_queue.put on the unbounded asyncio.Queue(): never blocks, never
\* drops
put(q, m) == Append(q, m)

\* number of messages that have reached the client so far: the enqueued ones
\* and the discarded one
arrived == nextId + (IF ignored THEN 1 ELSE 0)

\* the NewMessage handler registered by TelegramGrammarBot.start, with the
\* from_users filter of its registration
handler(sender, text, replyTo) ==
  /\ client = "connected"
  /\ IF accepts(sender, text)
     THEN /\ arrived < MaxMsgs
          /\ response_queue' =
               put(response_queue, [id |-> nextId, sender |-> sender,
                                    text |-> text, replyTo |-> replyTo])
          /\ nextId' = nextId + 1
          /\ WakeNext
          /\ UNCHANGED ignored
     ELSE /\ arrived < MaxMsgs
          /\ ignored' = TRUE
          /\ UNCHANGED <<response_queue, nextId, getters, pc>>
  /\ UNCHANGED <<phase, text_handler, runner, client, body, prior, drainAt, sendAt,
                 drained, sends, got, hist, shown, resp>>

\* the bot answers a prompt it has received
BotMessage == \E r \in Req : \E t \in TaggedTexts \cup UntaggedTexts :
  sends[r] > 0 /\ handler(BotUsername, t, r)

\* a message of any other account reaches the client
OtherMessage == \E t \in TaggedTexts \cup UntaggedTexts : handler("other", t, 0)

Next ==
  \/ TelegramStart
  \/ ServerStart
  \/ StartFails
  \/ ServerStop
  \/ TelegramStop
  \/ \E r \in Req : \E b \in Bodies : _handle_check(r, b)
  \/ \E r \in Req : SendDone(r)
  \/ \E r \in Req : SendFail(r)
  \/ \E r \in Req : Get(r)
  \/ \E r \in Req : Timeout(r)
  \/ BotMessage
  \/ OtherMessage

Spec == Init /\ [][Next]_vars

\* a task that resumes in response_queue.get() is ready; Get(r) is enabled
\* exactly then and every step of it changes pc[r]
GetReady(r) == pc[r] \in {"getting", "woken"}

\* the event loop runs every task that is ready and fires every timer that
\* is due, and a call of send_message returns or raises; the third conjunct
\* is weak fairness of Get(r) with its enabling condition written out
Fairness ==
  \A r \in Req : /\ WF_vars(SendDone(r) \/ SendFail(r))
                 /\ WF_vars(Timeout(r))
                 /\ (<>[]GetReady(r)) => ([]<><<Get(r)>>_vars)

FairSpec == Init /\ [][Next]_vars /\ Fairness

\* InputServer on its own: constructed with text_handler None, the controller
\* has called set_handler or has not before the server is started
ServerInit ==
  /\ phase = "constructed"
  /\ client = "none"
  /\ text_handler \in BOOLEAN
  /\ runner = "none"
  /\ response_queue = <<>>
  /\ getters = <<>>
  /\ nextId = 0
  /\ ignored = FALSE
  /\ pc = [r \in Req |-> "none"]
  /\ body = [r \in Req |-> [kind |-> "not_json", data |-> [other |-> "x"]]]
  /\ prior = [r \in Req |-> {}]
  /\ drainAt = [r \in Req |-> -1]
  /\ sendAt = [r \in Req |-> -1]
  /\ drained = [r \in Req |-> 0]
  /\ sends = [r \in Req |-> 0]
  /\ got = [r \in Req |-> <<>>]
  /\ hist = [r \in Req |-> <<>>]
  /\ shown = [r \in Req |-> <<>>]
  /\ resp = [r \in Req |-> <<>>]

ServerSpec == ServerInit /\ [][Next]_vars

\* ---- properties ----

Accepted(r) == hist[r] # <<>>
InputText == "he go school"

\* C1: at most one exchange is in flight: while one call of check_grammar has
\* sent its prompt and has not returned or timed out, no other call is
\* draining, sending or waiting.
C1_SingleFlight ==
  \A r \in Req : \A q \in Req :
    (r # q /\ pc[r] \in {"getting", "waiting", "woken"})
      => pc[q] \notin {"sending", "getting", "waiting", "woken"}

\* C2: the reply to a request that timed out is never returned as the result
\* of a later request.
C2_NoMisattribution ==
  \A r \in Req : \A q \in Req :
    (r \in prior[q] /\ hist[r] = <<"Idle", "Sent", "AwaitingReply", "TimedOut", "Reported">>
       /\ got[q] # <<>>)
      => got[q][1].replyTo # r

\* C3: the message check_grammar parses and returns was enqueued strictly
\* after its prompt was sent, never before.
C3_ReturnedAfterSend ==
  \A r \in Req : got[r] # <<>> => got[r][1].id >= sendAt[r]

\* the fallback result the specification describes for a failure whose
\* explanation holds the word w
IsFallback(res, w) ==
  /\ DOMAIN res = {"corrected_text", "error_analysis"}
  /\ res.corrected_text = InputText
  /\ Len(res.error_analysis) = 1
  /\ res.error_analysis[1].original = InputText
  /\ res.error_analysis[1].corrected = InputText
  /\ \E i \in 1..Len(res.error_analysis[1].explanation) :
       res.error_analysis[1].explanation[i] = w

\* C4: a request whose wait timed out, and any request that has ended after
\* sending with no message enqueued since its drain, is answered with status
\* 200 and the fallback result whose explanation contains "time".
C4_TimeoutFallback ==
  \A r \in Req :
    /\ (pc[r] = "done" /\ sends[r] > 0 /\ nextId = drainAt[r])
         => hist[r] = <<"Idle", "Sent", "AwaitingReply", "TimedOut", "Reported">>
    /\ (Len(hist[r]) > 3 /\ hist[r][4] = "TimedOut")
         => /\ Len(resp[r]) = 1
            /\ resp[r][1].status = 200
            /\ IsFallback(resp[r][1].body, "time")

C4_Witness ==
  \E r \in Req : pc[r] = "done" /\ Len(hist[r]) > 3 /\ hist[r][4] = "TimedOut"
                   /\ got[r] = <<>> /\ resp[r] # <<>>

\* C5: a tagged reply whose text after the tag is not valid JSON ends in the
\* fallback result with status 200, and its explanation says invalid JSON,
\* which a timeout explanation does not.
C5_DecodeFallback ==
  \A r \in Req :
    (got[r] # <<>> /\ got[r][1].text = <<Tag, "junk">>)
      => /\ Len(resp[r]) = 1
         /\ resp[r][1].status = 200
         /\ IsFallback(resp[r][1].body, "Invalid")
         /\ IsFallback(resp[r][1].body, "JSON")
         /\ ~IsFallback(resp[r][1].body, "time")
         /\ hist[r] = <<"Idle", "Sent", "AwaitingReply", "DecodeFailed", "Reported">>

C5_Witness ==
  \E r \in Req : pc[r] = "done" /\ got[r] # <<>> /\ got[r][1].text = <<Tag, "junk">>

\* the text field of a body is missing or empty
MissingOrEmpty(b) ==
  b.kind = "object" /\ ("text" \notin DOMAIN b.data \/ b.data.text = "")

\* C6: a request whose text is missing or empty is answered 400 with an error
\* field, and handling it invokes no handler, drains nothing, sends nothing
\* and presents nothing.
C6_ValidationNoSideEffect ==
  [][\A r \in Req :
       (pc[r] = "none" /\ pc'[r] # "none" /\ MissingOrEmpty(body'[r]))
         => /\ pc'[r] = "done"
            /\ Len(resp'[r]) = 1
            /\ resp'[r][1].status = 400
            /\ DOMAIN resp'[r][1].body = {"error"}
            /\ hist'[r] = <<>>
            /\ drainAt'[r] = -1
            /\ sends'[r] = 0
            /\ shown'[r] = <<>>
            /\ UNCHANGED <<response_queue, getters, sends, shown, hist>>]_vars

C6_Witness ==
  \E r \in Req : pc[r] = "done" /\ MissingOrEmpty(body[r]) /\ resp[r] # <<>>
                   /\ response_queue # <<>>

\* C7: every queued message comes from the bot and starts with the tag, and
\* so does every text handed to _parse_response.
C7_ListenerFilter ==
  /\ \A i \in 1..Len(response_queue) :
       /\ response_queue[i].sender = "bot"
       /\ response_queue[i].text[1] = "RESPONSE:"
  /\ \A r \in Req : got[r] # <<>> =>
       /\ got[r][1].sender = "bot"
       /\ got[r][1].text[1] = "RESPONSE:"

C7_Witness ==
  /\ ignored
  /\ \/ response_queue # <<>>
     \/ \E r \in Req : got[r] # <<>>

\* C8: a request that reaches the intake handler has one result presented,
\* the one its caller receives, and is never answered without it.
C8_ResultPresentedOnce ==
  \A r \in Req :
    /\ (Accepted(r) /\ pc[r] = "done")
         => /\ Len(shown[r]) = 1
            /\ Len(resp[r]) = 1
            /\ shown[r][1] = resp[r][1].body
    /\ (Accepted(r) /\ pc[r] # "done") => (shown[r] = <<>> /\ resp[r] = <<>>)
    /\ ~Accepted(r) => shown[r] = <<>>

C8_Witness ==
  /\ \E r \in Req : pc[r] = "done" /\ Accepted(r) /\ got[r] # <<>>
                      /\ "corrected_text" \in DOMAIN shown[r][1]
  /\ \E r \in Req : pc[r] = "done" /\ Accepted(r) /\ got[r] = <<>>

\* C9: every request with a non-empty text is answered with a well-formed
\* result holding corrected_text and error_analysis, never an error object.
C9_FailureAbsorbed ==
  \A r \in Req :
    (pc[r] = "done" /\ body[r].kind = "object" /\ ~MissingOrEmpty(body[r]))
      => /\ Len(resp[r]) = 1
         /\ "error" \notin DOMAIN resp[r][1].body
         /\ {"corrected_text", "error_analysis"} \subseteq DOMAIN resp[r][1].body

IsPrefix(s, t) == Len(s) <= Len(t) /\ SubSeq(t, 1, Len(s)) = s

Terminal == {"Decoded", "TimedOut", "DecodeFailed"}

FullPaths == { <<"Idle", "Sent", "AwaitingReply", x, "Reported">> : x \in Terminal }

\* C10 as stated: an accepted request passes through Idle, Sent,
\* AwaitingReply, one terminal state, Reported, in that order; Reported comes
\* only after the prompt was sent, and the prompt is sent at most once.
C10_StateMachine ==
  \A r \in Req :
    /\ Accepted(r) => \E p \in FullPaths : IsPrefix(hist[r], p)
    /\ (Accepted(r) /\ pc[r] = "done") => hist[r] \in FullPaths
    /\ (Accepted(r) /\ hist[r][Len(hist[r])] = "Reported") => sends[r] = 1
    /\ sends[r] <= 1

\* C10 amended: as C10, except that a request whose send fails goes from Idle
\* straight to Reported, with no prompt sent and the fallback result.
C10_StateMachineAmended ==
  \A r \in Req :
    /\ Accepted(r) =>
         \/ \E p \in FullPaths : IsPrefix(hist[r], p)
         \/ /\ hist[r] = <<"Idle", "Reported">>
            /\ sends[r] = 0
            /\ IsFallback(resp[r][1].body, "Error:")
    /\ (Accepted(r) /\ pc[r] = "done") => hist[r] \in FullPaths \cup {<<"Idle", "Reported">>}
    /\ (Accepted(r) /\ "Sent" \in {hist[r][i] : i \in 1..Len(hist[r])}) => sends[r] = 1
    /\ (Accepted(r) /\ pc[r] # "done") => "Reported" \notin {hist[r][i] : i \in 1..Len(hist[r])}
    /\ sends[r] <= 1

C10_Witness ==
  /\ \E r \in Req : hist[r] \in FullPaths
  /\ \E r \in Req : hist[r] = <<"Idle", "Reported">>

\* C11: a reply is returned and presented as a successful (Decoded) result
\* only when its document holds both corrected_text and error_analysis; a
\* document lacking one ends as DecodeFailed with the fallback result.
C11_DecodeWellFormed ==
  \A r \in Req :
    (got[r] # <<>> /\ pc[r] = "done" /\ hist[r][4] = "Decoded")
      => /\ {"corrected_text", "error_analysis"} \subseteq DOMAIN resp[r][1].body
         /\ {"corrected_text", "error_analysis"} \subseteq DOMAIN shown[r][1]

\* the reply with a fenced document that holds persian_translation, and the
\* document in it
FencedReply == <<"RESPONSE:", "ws", "fence_json", "ws", "doc_fa", "ws", "fence">>

FencedDocument ==
  [corrected_text |-> "I have a pen.",
   persian_translation |-> "man yek ghalam daram",
   error_analysis |-> << [original |-> "I has", corrected |-> "I have",
                          explanation |-> <<"Subject-verb", "agreement">>] >>]

\* C16: a well-formed tagged reply is returned to the HTTP caller with status
\* 200 exactly as decoded, persian_translation included, and the same value
\* is the one presented.
C16_SuccessPassThrough ==
  \A r \in Req :
    (got[r] # <<>> /\ got[r][1].text = FencedReply)
      => /\ resp[r] = << [status |-> 200, body |-> FencedDocument] >>
         /\ shown[r] = << FencedDocument >>
         /\ hist[r] = <<"Idle", "Sent", "AwaitingReply", "Decoded", "Reported">>

C16_Witness ==
  \E r \in Req : pc[r] = "done" /\ got[r] # <<>> /\ got[r][1].text = FencedReply
                   /\ "persian_translation" \in DOMAIN resp[r][1].body

\* C17: messages are queued in arrival order, and the message a request
\* returns is the first one enqueued after its drain.
C17_ArrivalOrder ==
  /\ \A i \in 1..Len(response_queue) : \A j \in 1..Len(response_queue) :
       i < j => response_queue[i].id < response_queue[j].id
  /\ \A r \in Req : got[r] # <<>> => got[r][1].id = drainAt[r]

\* C18: the drain of a request removes no message while another request,
\* woken by the arrival of a reply, has not yet taken it from the queue.
C18_DrainNeverSteals ==
  [][\A q \in Req :
       (pc[q] = "none" /\ pc'[q] = "sending" /\ \E r \in Req : pc[r] = "woken")
         => response_queue = <<>>]_vars

\* C13 as stated: the response queue never holds more than one message.
C13_SingleSlot == Len(response_queue) <= 1

RECURSIVE SumDrained(_)
SumDrained(n) == IF n = 0 THEN 0 ELSE drained[n] + SumDrained(n - 1)

\* C13 amended: the response queue is unbounded; it holds, in arrival order,
\* every tagged message enqueued and not yet taken by a get or removed by a
\* drain, so no message is overwritten or dropped.
C13_NothingDropped ==
  Len(response_queue) + SumDrained(NReq) + Cardinality({r \in Req : got[r] # <<>>})
    = nextId

C13_Witness == Len(response_queue) >= 2

\* C15: stop() of the Telegram bot with no client, and stop() of the server
\* with no runner, complete and leave the response queue and all other state
\* as they were.
C15_StopWithoutSession ==
  [][/\ (phase \in {"start_failed", "serving"} /\ phase' = "server_stopped"
           /\ runner = "none")
          => UNCHANGED <<client, text_handler, runner, response_queue, getters,
                         nextId, ignored, pc, body, prior, drainAt, sendAt,
                         drained, sends, got, hist, shown, resp>>
     /\ (phase = "server_stopped" /\ phase' = "stopped" /\ client = "none")
          => UNCHANGED <<client, text_handler, runner, response_queue, getters,
                         nextId, ignored, pc, body, prior, drainAt, sendAt,
                         drained, sends, got, hist, shown, resp>>]_vars

C15_Witness == phase = "stopped" /\ client = "none" /\ runner = "none"

\* C19: the HTTP listener runs only while the Telegram client is connected:
\* it is started after the client and its message handler, no request is in
\* progress without a connected client, and on stop it is stopped before the
\* client is disconnected.
C19_LifecycleOrder ==
  /\ runner = "running" => client = "connected"
  /\ client = "disconnected" => runner = "cleaned"
  /\ \A r \in Req : pc[r] # "none" => client # "none"
  /\ \A r \in Req : pc[r] \notin {"none", "done"} => client = "connected"

C19_Witness ==
  /\ phase = "stopped"
  /\ client = "disconnected"
  /\ \E r \in Req : pc[r] = "done" /\ Accepted(r)

IsError(response, status, message) ==
  response = [status |-> status, body |-> [error |-> message]]

\* C14: a request that has ended has exactly one response: 400 with an error
\* field when the text is missing or empty (whether or not a handler is
\* configured), 500 with an error field when the body is not JSON or no
\* handler is configured, else status 200 with the result; the handler is
\* entered at most once, and only for the last kind.
C14_OutcomeClassification ==
  \A r \in Req :
    /\ pc[r] # "done" => resp[r] = <<>>
    /\ pc[r] = "done" =>
         /\ Len(resp[r]) = 1
         /\ Cardinality({i \in 1..Len(hist[r]) : hist[r][i] = "Idle"}) <= 1
         /\ IF body[r].kind = "not_json"
            THEN IsError(resp[r][1], 500, "Expecting value") /\ hist[r] = <<>>
            ELSE IF MissingOrEmpty(body[r])
            THEN IsError(resp[r][1], 400, "No text provided") /\ hist[r] = <<>>
            ELSE IF ~text_handler
            THEN IsError(resp[r][1], 500, "Handler not configured") /\ hist[r] = <<>>
            ELSE /\ resp[r][1].status = 200
                 /\ "error" \notin DOMAIN resp[r][1].body
                 /\ "corrected_text" \in DOMAIN resp[r][1].body
                 /\ hist[r] # <<>>

C14_Witness ==
  /\ ~text_handler
  /\ \E r \in Req : pc[r] = "done" /\ MissingOrEmpty(body[r])
  /\ \E r \in Req : pc[r] = "done" /\ resp[r][1].status = 500
                      /\ body[r].kind = "object"

InProgress(r) == pc[r] \in {"sending", "getting", "waiting", "woken"}

\* C12: no request stays in progress forever, whether or not the bot replies
\* (again and again no request is sending or waiting), and every request that
\* has ended has one HTTP response and, if it sent its prompt, ended Decoded,
\* DecodeFailed or TimedOut.
C12_BoundedWait ==
  /\ [](\A r \in Req : pc[r] = "done" =>
            /\ Len(resp[r]) = 1
            /\ sends[r] > 0 => hist[r] \in FullPaths)
  /\ []<>(\A r \in Req : ~InProgress(r))

C12_Witness ==
  /\ nextId = 0
  /\ \E r \in Req : pc[r] = "done" /\ sends[r] = 1 /\ hist[r][4] = "TimedOut"
                      /\ Len(resp[r]) = 1
====
